---- MODULE Spec2Model ----
(***************************************************************************)
(* Blog-Writer: the Interaction Shell (src/App.tsx), the generation        *)
(* service (src/services/geminiService.ts) and the markdown renderer and   *)
(* copy action of src/components/GeneratedPost.tsx.                        *)
(*                                                                         *)
(* A JavaScript string is a sequence of one-character strings, so that     *)
(* every regular expression of the source is computed character by         *)
(* character.  Index 0 means "no such position".                           *)
(***************************************************************************)
EXTENDS Integers, Sequences, FiniteSets, TLC

VARIABLES
    \* App (src/App.tsx): the hook state, the calls of generateBlogPost that
    \* have not settled, and what the last invocation and the last call did
    theme, prompt, generatedPost, isLoading, error, calls, lastInvocation, outcome,
    underlying,
    \* GeneratedPost, the copy action: the hook state, the clipboard writes
    \* that have not settled, the timers that have not fired, and the clock
    isCopied, writes, timers, now, lastCopied,
    \* applyInlineFormatting: its argument, its local and its position
    text, formattedText, ipc,
    \* renderContent: the prop, the locals of the function and of its two
    \* loops, the array it returns and its position
    content, blocks, index, lines, lineIndex, elements, listItems, nodes, rpc

shellVars  == <<theme, prompt, generatedPost, isLoading, error, calls, lastInvocation,
                outcome, underlying>>
copyVars   == <<isCopied, writes, timers, now, lastCopied>>
inlineVars == <<text, formattedText, ipc>>
renderVars == <<content, blocks, index, lines, lineIndex, elements, listItems, nodes, rpc>>
vars       == <<shellVars, copyVars, inlineVars, renderVars>>

\* One component runs at a time: what a step of it leaves alone.
ShellOnly  == UNCHANGED <<copyVars, inlineVars, renderVars>>
CopyOnly   == UNCHANGED <<shellVars, inlineVars, renderVars>>
InlineOnly == UNCHANGED <<shellVars, copyVars, renderVars>>
RenderOnly == UNCHANGED <<shellVars, copyVars, inlineVars>>

-----------------------------------------------------------------------------
(* Strings *)

\* The least element of a non-empty set of positions, 0 for the empty set.
MinOf(S) == IF S = {} THEN 0 ELSE CHOOSE j \in S : \A k \in S : j <= k

\* String.prototype.indexOf(c, from) for a one-character c, 1-based; 0 if none.
IndexOfChar(s, c, from) == MinOf({j \in from..Len(s) : s[j] = c})

\* s.startsWith(p, at) with a 1-based position.
StartsWithAt(s, p, at) ==
    /\ at >= 1
    /\ at + Len(p) - 1 <= Len(s)
    /\ \A k \in 1..Len(p) : s[at + k - 1] = p[k]

\* The 1-based positions at which p occurs in s.
Occurrences(s, p) == {j \in 1..Len(s) : StartsWithAt(s, p, j)}

Contains(s, p) == Occurrences(s, p) # {}

\* The regular expression class \s and the characters String.prototype.trim
\* strips, within the alphabet of the model.
IsSpace(c) == c \in {" ", "\t", "\n", "\r"}

\* What the regular expression dot does not match.
IsLineTerminator(c) == c \in {"\n", "\r"}

\* U+0060, which a string of this language cannot hold.
BT == "BACKTICK"

\* String.prototype.trim
Trim(s) ==
    LET keep == {j \in 1..Len(s) : ~IsSpace(s[j])}
    IN  IF keep = {} THEN <<>>
        ELSE SubSeq(s, MinOf(keep), CHOOSE j \in keep : \A k \in keep : k <= j)

\* s.substring(n)
Substring(s, n) == SubSeq(s, n + 1, Len(s))

RECURSIVE Concat(_)
Concat(ss) == IF ss = <<>> THEN <<>> ELSE Head(ss) \o Concat(Tail(ss))

-----------------------------------------------------------------------------
(* The literals of applyInlineFormatting *)

AMP ==
    <<"&", "a", "m", "p", ";">>

LT ==
    <<"&", "l", "t", ";">>

GT ==
    <<"&", "g", "t", ";">>

A_OPEN ==
    <<"<", "a", " ", "h", "r", "e", "f", "=", "\"">>

A_ATTRS ==
    <<"\"", " ", "t", "a", "r", "g", "e", "t", "=", "\"", "_", "b", "l", "a", "n", "k", "\"",
      " ", "r", "e", "l", "=", "\"", "n", "o", "o", "p", "e", "n", "e", "r", " ", "n", "o",
      "r", "e", "f", "e", "r", "r", "e", "r", "\"", " ", "c", "l", "a", "s", "s", "=", "\"",
      "t", "e", "x", "t", "-", "i", "n", "d", "i", "g", "o", "-", "5", "0", "0", " ", "h", "o",
      "v", "e", "r", ":", "u", "n", "d", "e", "r", "l", "i", "n", "e", "\"", ">">>

A_CLOSE ==
    <<"<", "/", "a", ">">>

STRONG_OPEN ==
    <<"<", "s", "t", "r", "o", "n", "g", ">">>

STRONG_CLOSE ==
    <<"<", "/", "s", "t", "r", "o", "n", "g", ">">>

EM_OPEN ==
    <<"<", "e", "m", ">">>

EM_CLOSE ==
    <<"<", "/", "e", "m", ">">>

CODE_OPEN ==
    <<"<", "c", "o", "d", "e", " ", "c", "l", "a", "s", "s", "=", "\"", "b", "g", "-", "g",
      "r", "a", "y", "-", "2", "0", "0", " ", "d", "a", "r", "k", ":", "b", "g", "-", "g", "r",
      "a", "y", "-", "7", "0", "0", " ", "r", "o", "u", "n", "d", "e", "d", "-", "l", "g", " ",
      "p", "x", "-", "1", ".", "5", " ", "p", "y", "-", "1", " ", "f", "o", "n", "t", "-", "m",
      "o", "n", "o", " ", "t", "e", "x", "t", "-", "s", "m", "\"", ">">>

CODE_CLOSE ==
    <<"<", "/", "c", "o", "d", "e", ">">>

HTTP ==
    <<"h", "t", "t", "p">>

COLON_SLASHES ==
    <<":", "/", "/">>

-----------------------------------------------------------------------------
(* The regular expressions of applyInlineFormatting.  Each Match operator  *)
(* is the regular expression tried at position i of s, as the backtracking *)
(* matcher decides it; a match gives its last position and the text the    *)
(* replacement string puts in its place.                                   *)

NoMatch == [ok |-> FALSE, end |-> 0, out |-> <<>>]

\* text.replace of a global one-character pattern c by rep.
RECURSIVE ReplaceCharFrom(_, _, _, _)
ReplaceCharFrom(s, c, rep, i) ==
    LET p == IndexOfChar(s, c, i)
    IN  IF p = 0 THEN SubSeq(s, i, Len(s))
        ELSE SubSeq(s, i, p - 1) \o rep \o ReplaceCharFrom(s, c, rep, p + 1)

ReplaceChar(s, c, rep) == ReplaceCharFrom(s, c, rep, 1)

\* The three chained replaces that escape &, < and >, ampersand first.
EscapeHtml(s) == ReplaceChar(ReplaceChar(ReplaceChar(s, "&", AMP), "<", LT), ">", GT)

\* The scheme, http or https and "://", tried at position p: the position after the scheme, 0 if it fails.
LinkSchemeEndAnyScheme(s, p) ==
    IF StartsWithAt(s, HTTP \o <<"s">> \o COLON_SLASHES, p) THEN p + 8
    ELSE IF StartsWithAt(s, HTTP \o COLON_SLASHES, p) THEN p + 7
    ELSE p

LinkSchemeEnd(s, p) ==
    IF StartsWithAt(s, HTTP \o <<"s">> \o COLON_SLASHES, p) THEN p + 8
    ELSE IF StartsWithAt(s, HTTP \o COLON_SLASHES, p) THEN p + 7
    ELSE 0

\* The link rule: "[", a label of one or more characters other than "]", "](",
\* a URL that is the scheme and one or more characters other than whitespace and
\* ")", and ")".  The label runs to the first "]", the URL to the first whitespace
\* or ")", which has to be a ")".
MatchLink(s, i) ==
    LET rb   == IndexOfChar(s, "]", i + 1)
        body == LinkSchemeEnd(s, rb + 2)
        stop == MinOf({j \in body..Len(s) : IsSpace(s[j]) \/ s[j] = ")"})
    IN  IF /\ s[i] = "["
           /\ rb >= i + 2
           /\ StartsWithAt(s, <<"(">>, rb + 1)
           /\ body # 0
           /\ stop > body
           /\ s[stop] = ")"
        THEN [ok |-> TRUE, end |-> stop,
              out |-> A_OPEN \o SubSeq(s, rb + 2, stop - 1) \o A_ATTRS
                      \o SubSeq(s, i + 1, rb - 1) \o A_CLOSE]
        ELSE NoMatch

\* The bold rule, two asterisks, a lazy dot-star group, two asterisks: the group
\* stops at the first later pair of asterisks and does not cross a line terminator.
MatchBold(s, i) ==
    LET close == MinOf({j \in (i + 2)..Len(s) : StartsWithAt(s, <<"*", "*">>, j)})
    IN  IF /\ StartsWithAt(s, <<"*", "*">>, i)
           /\ close # 0
           /\ \A k \in (i + 2)..(close - 1) : ~IsLineTerminator(s[k])
        THEN [ok |-> TRUE, end |-> close + 1,
              out |-> STRONG_OPEN \o SubSeq(s, i + 2, close - 1) \o STRONG_CLOSE]
        ELSE NoMatch

\* A one-character delimiter d, one or more characters other than d, and d again:
\* the underscore italic rule and the inline code rule.
MatchDelimited(s, i, d, open, close) ==
    LET r == IndexOfChar(s, d, i + 1)
    IN  IF s[i] = d /\ r >= i + 2
        THEN [ok |-> TRUE, end |-> r, out |-> open \o SubSeq(s, i + 1, r - 1) \o close]
        ELSE NoMatch

\* The asterisk italic rule: an asterisk not preceded by one, a first inner
\* character that is neither whitespace nor an asterisk, a lazy run of characters
\* other than asterisks, and an asterisk not followed by one.  The closing asterisk
\* can only be the first asterisk after the first inner character.
MatchItalicAsterisk(s, i) ==
    LET r == IndexOfChar(s, "*", i + 2)
    IN  IF /\ s[i] = "*"
           /\ (i = 1 \/ s[i - 1] # "*")
           /\ i + 1 <= Len(s)
           /\ ~IsSpace(s[i + 1])
           /\ s[i + 1] # "*"
           /\ r # 0
           /\ (r = Len(s) \/ s[r + 1] # "*")
        THEN [ok |-> TRUE, end |-> r, out |-> EM_OPEN \o SubSeq(s, i + 1, r - 1) \o EM_CLOSE]
        ELSE NoMatch

Match(rule, s, i) ==
    CASE rule = "link"    -> MatchLink(s, i)
      [] rule = "bold"    -> MatchBold(s, i)
      [] rule = "italic_" -> MatchDelimited(s, i, "_", EM_OPEN, EM_CLOSE)
      [] rule = "italic*" -> MatchItalicAsterisk(s, i)
      [] rule = "code"    -> MatchDelimited(s, i, BT, CODE_OPEN, CODE_CLOSE)

\* String.prototype.replace with a global regular expression: the leftmost
\* match from position i on is replaced, and the search goes on after it.
RECURSIVE ReplaceAll(_, _, _)
ReplaceAll(rule, s, i) ==
    LET p == MinOf({j \in i..Len(s) : Match(rule, s, j).ok})
        m == Match(rule, s, p)
    IN  IF p = 0 THEN SubSeq(s, i, Len(s))
        ELSE SubSeq(s, i, p - 1) \o m.out \o ReplaceAll(rule, s, m.end + 1)

\* applyInlineFormatting(text), the statements in their order.
applyInlineFormatting(s) ==
    ReplaceAll("code",
      ReplaceAll("italic*",
        ReplaceAll("italic_",
          ReplaceAll("bold",
            ReplaceAll("link", EscapeHtml(s), 1), 1), 1), 1), 1)
-----------------------------------------------------------------------------
(* renderContent: the block splitter and the block-to-node assembler *)

FENCE == <<BT, BT, BT>>

IsLower(c) ==
    c \in {"a", "b", "c", "d", "e", "f", "g", "h", "i", "j", "k", "l", "m",
           "n", "o", "p", "q", "r", "s", "t", "u", "v", "w", "x", "y", "z"}

\* The splitter's pattern tried at position i: three backticks, a lazy run of
\* any characters, three backticks.  The last position of the match, 0 if none.
FenceEnd(s, i) ==
    LET close == MinOf({j \in (i + 3)..Len(s) : StartsWithAt(s, FENCE, j)})
    IN  IF StartsWithAt(s, FENCE, i) /\ close # 0 THEN close + 2 ELSE 0

\* content.split with the capturing pattern: the text before each match, the
\* match itself, and at last the text after the last match.
RECURSIVE SplitFences(_, _)
SplitFences(s, i) ==
    LET p == MinOf({j \in i..Len(s) : FenceEnd(s, j) # 0})
    IN  IF p = 0 THEN <<SubSeq(s, i, Len(s))>>
        ELSE <<SubSeq(s, i, p - 1), SubSeq(s, p, FenceEnd(s, p))>>
             \o SplitFences(s, FenceEnd(s, p) + 1)

\* The test of line 64: the block starts with three backticks.
IsCodeBlock(block) == StartsWithAt(block, FENCE, 1)

\* The replace of line 66.  Its first alternative matches at the start only:
\* three backticks, lowercase letters, a newline.  Its second matches at the
\* end only: three backticks, not overlapping what the first one matched.
StripFences(block) ==
    LET stop   == MinOf({j \in 4..Len(block) : ~IsLower(block[j])})
        opened == IF IsCodeBlock(block) /\ stop # 0 /\ block[stop] = "\n" THEN stop ELSE 0
        last   == Len(block) - 2
        closed == last > opened /\ StartsWithAt(block, FENCE, last)
    IN  SubSeq(block, opened + 1, IF closed THEN last - 1 ELSE Len(block))

\* block.split('\n')
RECURSIVE SplitLines(_, _)
SplitLines(s, i) ==
    LET p == IndexOfChar(s, "\n", i)
    IN  IF p = 0 THEN <<SubSeq(s, i, Len(s))>>
        ELSE <<SubSeq(s, i, p - 1)>> \o SplitLines(s, p + 1)

H2_PREFIX == <<"#", "#", " ">>
H3_PREFIX == <<"#", "#", "#", " ">>
LI_PREFIX == <<"*", " ">>

\* The branch of the line loop that takes the line, lines 100-117.
LineKind(line) ==
    IF StartsWithAt(line, H2_PREFIX, 1) THEN "h2"
    ELSE IF StartsWithAt(line, H3_PREFIX, 1) THEN "h3"
    ELSE IF StartsWithAt(Trim(line), LI_PREFIX, 1) THEN "li"
    ELSE IF Trim(line) = <<>> THEN "blank"
    ELSE "p"

\* The <ul> element of lines 89-93: its key holds elements.length, each item
\* is the inline markup of the buffered line without its first two characters.
ListElement(idx, els, items) ==
    [tag   |-> "ul",
     key   |-> <<idx, Len(els)>>,
     items |-> [k \in 1..Len(items) |-> applyInlineFormatting(Substring(items[k], 2))]]

\* A slip of flushListItems: the buffer is not emptied after the push.
flushListItemsKeepsBuffer(idx, els, items) ==
    IF Len(items) > 0
    THEN [elements |-> Append(els, ListElement(idx, els, items)), listItems |-> items]
    ELSE [elements |-> els, listItems |-> items]

\* flushListItems, on the locals it closes over.
flushListItems(idx, els, items) ==
    IF Len(items) > 0
    THEN [elements |-> Append(els, ListElement(idx, els, items)), listItems |-> <<>>]
    ELSE [elements |-> els, listItems |-> items]

\* An element whose markup is set with dangerouslySetInnerHTML.
LineElement(tag, idx, lineIdx, html) ==
    [tag |-> tag, key |-> <<idx, lineIdx>>, html |-> html]

\* The <pre><code> of lines 73-77.  The string is a child of <code>, and React
\* renders a string child as a text node: the reader sees textChild as it is.
CodeElement(idx, block) ==
    [tag |-> "pre", key |-> idx, textChild |-> EscapeHtml(StripFences(block))]

-----------------------------------------------------------------------------
(* renderContent as a state machine over bounded contents *)

\* A content is a concatenation of at most MaxContentSegs of these pieces.
MaxContentSegs == 4

ContentSegs ==
    { <<BT, BT, BT>>,
      <<BT, BT, BT, "j", "s", "\n">>,
      <<"<">>,
      <<"*", " ", "a", "\n">>,
      <<"*", " ", "b">>,
      <<" ", "*", " ", "c", "\n">>,
      <<"#", "#", " ", "h", "\n">>,
      <<"#", "#", "#", " ", "g", "\n">>,
      <<"\n">> }

ContentInputs ==
    {Concat(ss) : ss \in UNION {[1..n -> ContentSegs] : n \in 0..MaxContentSegs}}

InitRender ==
    /\ content \in ContentInputs
    /\ blocks = <<>>
    /\ index = 0
    /\ lines = <<>>
    /\ lineIndex = 0
    /\ elements = <<>>
    /\ listItems = <<>>
    /\ nodes = <<>>
    /\ rpc = "start"

\* line 56: nothing is rendered for an empty content
RenderNothing ==
    /\ rpc = "start"
    /\ content = <<>>
    /\ rpc' = "done"
    /\ UNCHANGED <<content, blocks, index, lines, lineIndex, elements, listItems, nodes>>
    /\ RenderOnly

\* line 60
RenderSplit ==
    /\ rpc = "start"
    /\ content # <<>>
    /\ blocks' = SplitFences(content, 1)
    /\ index' = 0
    /\ rpc' = "block"
    /\ UNCHANGED <<content, lines, lineIndex, elements, listItems, nodes>>
    /\ RenderOnly

\* lines 64-78: the callback of blocks.map on a block that starts with a fence
RenderCodeBlock ==
    /\ rpc = "block"
    /\ index < Len(blocks)
    /\ IsCodeBlock(blocks[index + 1])
    /\ nodes' = Append(nodes, CodeElement(index, blocks[index + 1]))
    /\ index' = index + 1
    /\ UNCHANGED <<content, blocks, lines, lineIndex, elements, listItems, rpc>>
    /\ RenderOnly

\* lines 81-84: the callback of blocks.map on any other block
RenderTextBlock ==
    /\ rpc = "block"
    /\ index < Len(blocks)
    /\ ~IsCodeBlock(blocks[index + 1])
    /\ lines' = SplitLines(blocks[index + 1], 1)
    /\ lineIndex' = 0
    /\ elements' = <<>>
    /\ listItems' = <<>>
    /\ rpc' = "line"
    /\ UNCHANGED <<content, blocks, index, nodes>>
    /\ RenderOnly

\* One turn of lines.forEach on a line of the given kind.
RenderLine(kind) ==
    /\ rpc = "line"
    /\ lineIndex < Len(lines)
    /\ LineKind(lines[lineIndex + 1]) = kind
    /\ lineIndex' = lineIndex + 1
    /\ UNCHANGED <<content, blocks, index, lines, nodes, rpc>>
    /\ RenderOnly

\* lines 100-102
RenderHeading2 ==
    /\ RenderLine("h2")
    /\ LET f == flushListItems(index, elements, listItems)
       IN  /\ elements' = Append(f.elements,
                  LineElement("h2", index, lineIndex,
                      applyInlineFormatting(Substring(lines[lineIndex + 1], 3))))
           /\ listItems' = f.listItems

\* lines 103-105
RenderHeading3 ==
    /\ RenderLine("h3")
    /\ LET f == flushListItems(index, elements, listItems)
       IN  /\ elements' = Append(f.elements,
                  LineElement("h3", index, lineIndex,
                      applyInlineFormatting(Substring(lines[lineIndex + 1], 4))))
           /\ listItems' = f.listItems

\* lines 106-107
RenderListItem ==
    /\ RenderLine("li")
    /\ listItems' = Append(listItems, lines[lineIndex + 1])
    /\ UNCHANGED elements

\* lines 108-113
RenderBlankLine ==
    /\ RenderLine("blank")
    /\ LET f == flushListItems(index, elements, listItems)
       IN  /\ elements' = IF Len(f.elements) > 0
                          THEN Append(f.elements, [tag |-> "br", key |-> <<index, lineIndex>>])
                          ELSE f.elements
           /\ listItems' = f.listItems

\* lines 114-117
RenderParagraph ==
    /\ RenderLine("p")
    /\ LET f == flushListItems(index, elements, listItems)
       IN  /\ elements' = Append(f.elements,
                  LineElement("p", index, lineIndex,
                      applyInlineFormatting(lines[lineIndex + 1])))
           /\ listItems' = f.listItems

\* lines 120-122: the last flush, and the <div> of the block
RenderBlockEnd ==
    /\ rpc = "line"
    /\ lineIndex = Len(lines)
    /\ LET f == flushListItems(index, elements, listItems)
       IN  /\ elements' = f.elements
           /\ listItems' = f.listItems
           /\ nodes' = Append(nodes, [tag |-> "div", key |-> index, children |-> f.elements])
    /\ index' = index + 1
    /\ rpc' = "block"
    /\ UNCHANGED <<content, blocks, lines, lineIndex>>
    /\ RenderOnly

\* line 123: blocks.map returns
RenderReturn ==
    /\ rpc = "block"
    /\ index = Len(blocks)
    /\ rpc' = "done"
    /\ UNCHANGED <<content, blocks, index, lines, lineIndex, elements, listItems, nodes>>
    /\ RenderOnly

NextRender ==
    \/ RenderNothing
    \/ RenderSplit
    \/ RenderCodeBlock
    \/ RenderTextBlock
    \/ RenderHeading2
    \/ RenderHeading3
    \/ RenderListItem
    \/ RenderBlankLine
    \/ RenderParagraph
    \/ RenderBlockEnd
    \/ RenderReturn
-----------------------------------------------------------------------------
(* The Interaction Shell, src/App.tsx, and generateBlogPost.  The prompt is  *)
(* a sequence of characters, because the code trims it; the other strings    *)
(* are only stored, compared with the empty string and displayed.            *)
(* React handles each event apart and renders before the next one, and it    *)
(* renders once for the state updates of one handler or continuation: an     *)
(* action is an event with the render that follows it, so that the closure   *)
(* of handleGeneratePost and the attributes of the DOM are those of the      *)
(* current hook state.                                                       *)

\* The value null of the error state.
NULL == "<null>"

\* What && and the conditional operator take for true, for a string or null.
Truthy(v) == v # NULL /\ v # ""

\* geminiService.ts line 35
SERVICE_ERROR ==
    "Failed to generate blog post from AI. Please check your API key and try again."

\* App.tsx line 44
UNKNOWN_ERROR == "An unknown error occurred."

\* What the user can type.
Prompts == {<<>>, <<" ">>, <<"a">>, <<"b", " ">>}

\* What ai.models.generateContent can settle with: a response with its text, or
\* a rejection with an Error and its message or with a value that is no Error.
ApiResponses ==
    {[ok |-> TRUE, text |-> t, isError |-> FALSE, message |-> ""] : t \in {"", "## T", "* x"}}

ApiFailures ==
    {[ok |-> FALSE, text |-> "", isError |-> TRUE, message |-> "quota exceeded"],
     [ok |-> FALSE, text |-> "", isError |-> TRUE, message |-> "fetch failed"],
     [ok |-> FALSE, text |-> "", isError |-> FALSE, message |-> ""]}

NoCall == [ok |-> TRUE, text |-> "", isError |-> FALSE, message |-> "none"]

\* In-flight calls the model follows.
MaxCalls == 3

\* A slip of generateBlogPost: the catch rethrows what it caught.
generateBlogPostRethrows(api) ==
    IF api.ok THEN [ok |-> TRUE, value |-> api.text, isError |-> FALSE, message |-> ""]
    ELSE [ok |-> FALSE, value |-> "", isError |-> api.isError, message |-> api.message]

\* generateBlogPost, lines 21-37: what its promise settles with, given what the
\* call of the SDK settled with.  The catch logs the error and throws a new one.
generateBlogPost(api) ==
    IF api.ok THEN [ok |-> TRUE, value |-> api.text, isError |-> FALSE, message |-> ""]
    ELSE [ok |-> FALSE, value |-> "", isError |-> TRUE, message |-> SERVICE_ERROR]

\* line 44: e instanceof Error ? e.message : 'An unknown error occurred.'
ErrorText(e) == IF e.isError THEN e.message ELSE UNKNOWN_ERROR

\* line 34: the condition of the early return
ReturnsEarly == Trim(prompt) = <<>> \/ isLoading

\* line 85: the disabled attribute of the button
GenerateDisabled == isLoading \/ Trim(prompt) = <<>>

\* A slip of handleGeneratePost: the loading flag is not set.
BeginGenerationNotLoading ==
    /\ isLoading' = isLoading
    /\ error' = NULL
    /\ generatedPost' = ""

\* lines 36-38
BeginGeneration ==
    /\ isLoading' = TRUE
    /\ error' = NULL
    /\ generatedPost' = ""

\* The panels of the output section, lines 105-127.
LoadingPanel     == isLoading
ErrorPanel       == Truthy(error)
ResultPanel      == ~isLoading /\ ~Truthy(error) /\ Truthy(generatedPost)
PlaceholderPanel == ~isLoading /\ ~Truthy(error) /\ ~Truthy(generatedPost)

\* ThemeToggle.tsx line 13
OtherTheme(t) == IF t = "light" THEN "dark" ELSE "light"

\* The state after the mount: the first effect has set the theme from the stored
\* one or from the preference of the system, lines 16-21.
InitShell ==
    /\ theme \in {"light", "dark"}
    /\ prompt = <<>>
    /\ generatedPost = ""
    /\ isLoading = FALSE
    /\ error = NULL
    /\ calls = 0
    /\ lastInvocation = "none"
    /\ outcome = "none"
    /\ underlying = NoCall

\* ThemeToggle.tsx lines 12-14
ToggleTheme ==
    /\ theme' = OtherTheme(theme)
    /\ UNCHANGED <<prompt, generatedPost, isLoading, error, calls, lastInvocation, outcome,
                   underlying>>
    /\ ShellOnly

\* lines 73-79: the textarea, disabled while loading
SetPrompt ==
    /\ ~isLoading
    /\ \E p \in Prompts : prompt' = p
    /\ UNCHANGED <<theme, generatedPost, isLoading, error, calls, lastInvocation, outcome, underlying>>
    /\ ShellOnly

\* line 34: an invocation of handleGeneratePost that returns at once
GenerateReturns ==
    /\ ReturnsEarly
    /\ lastInvocation' = "returned"
    /\ UNCHANGED <<theme, prompt, generatedPost, isLoading, error, calls, outcome, underlying>>
    /\ ShellOnly

\* lines 36-41: an invocation that goes on to call generateBlogPost and awaits it
GenerateStarts ==
    /\ ~ReturnsEarly
    /\ calls < MaxCalls
    /\ BeginGeneration
    /\ calls' = calls + 1
    /\ lastInvocation' = "started"
    /\ outcome' = "pending"
    /\ UNCHANGED <<theme, prompt, underlying>>
    /\ ShellOnly

\* lines 41-42 and 46: the awaited call resolves
GenerationSucceeds ==
    /\ calls > 0
    /\ \E api \in ApiResponses :
         LET r == generateBlogPost(api)
         IN  /\ r.ok
             /\ generatedPost' = r.value
             /\ underlying' = api
    /\ isLoading' = FALSE
    /\ calls' = calls - 1
    /\ outcome' = "success"
    /\ UNCHANGED <<theme, prompt, error, lastInvocation>>
    /\ ShellOnly

\* lines 43-46: the awaited call rejects
GenerationFails ==
    /\ calls > 0
    /\ \E api \in ApiFailures :
         LET r == generateBlogPost(api)
         IN  /\ ~r.ok
             /\ error' = ErrorText(r)
             /\ underlying' = api
    /\ isLoading' = FALSE
    /\ calls' = calls - 1
    /\ outcome' = "failure"
    /\ UNCHANGED <<theme, prompt, generatedPost, lastInvocation>>
    /\ ShellOnly

NextShell ==
    \/ ToggleTheme
    \/ SetPrompt
    \/ GenerateReturns
    \/ GenerateStarts
    \/ GenerationSucceeds
    \/ GenerationFails

-----------------------------------------------------------------------------
(* The copy action of GeneratedPost, lines 9-18.  Time is in milliseconds;   *)
(* a timer fires at its time or later, and timers of one delay fire in the   *)
(* order they were set.                                                      *)

\* line 14
COPIED_DELAY == 2000

\* The step of the clock and its last value, in milliseconds.
TickStep == 500
MaxTime == 5000

\* Clipboard writes and timers the model follows at one time.
MaxPending == 3

InitCopy ==
    /\ isCopied = FALSE
    /\ writes = 0
    /\ timers = <<>>
    /\ now = 0
    /\ lastCopied = <<>>

\* line 12: the click starts a clipboard write
HandleCopy ==
    /\ writes + Len(timers) < MaxPending
    /\ writes' = writes + 1
    /\ UNCHANGED <<isCopied, timers, now, lastCopied>>
    /\ CopyOnly

\* lines 12-14: the write resolves, the indicator is set and a timer started
ClipboardResolves ==
    /\ writes > 0
    /\ writes' = writes - 1
    /\ isCopied' = TRUE
    /\ timers' = Append(timers, now + COPIED_DELAY)
    /\ lastCopied' = IF lastCopied = <<>> THEN <<now>> ELSE <<now, lastCopied[1]>>
    /\ UNCHANGED now
    /\ CopyOnly

\* lines 15-17: the write rejects, the error is logged
ClipboardRejects ==
    /\ writes > 0
    /\ writes' = writes - 1
    /\ UNCHANGED <<isCopied, timers, now, lastCopied>>
    /\ CopyOnly

\* line 14: the callback of the oldest timer runs
TimerFires ==
    /\ timers # <<>>
    /\ Head(timers) <= now
    /\ isCopied' = FALSE
    /\ timers' = Tail(timers)
    /\ UNCHANGED <<writes, now, lastCopied>>
    /\ CopyOnly

Tick ==
    /\ now < MaxTime
    /\ now' = now + TickStep
    /\ UNCHANGED <<isCopied, writes, timers, lastCopied>>
    /\ CopyOnly

NextCopy ==
    \/ HandleCopy
    \/ ClipboardResolves
    \/ ClipboardRejects
    \/ TimerFires
    \/ Tick
-----------------------------------------------------------------------------
(* applyInlineFormatting as a state machine over bounded input lines *)

\* A line is a concatenation of at most MaxInlineSegs of these pieces.
MaxInlineSegs == 3

InlineSegs ==
    { <<"[", "a", "]">>,
      <<"(", "h", "t", "t", "p", ":", "/", "/", "b", ")">>,
      <<"(", "h", "t", "t", "p", "s", ":", "/", "/", "b", ")">>,
      <<"(", "j", "a", "v", "a", "s", "c", "r", "i", "p", "t", ":", "b", ")">>,
      <<"(", "h", "t", "t", "p", ":", "/", "/", "b", "\"", "o", "n", "c", "l", "i", "c", "k", "=", "\"", "c", ")">>,
      <<"[", "a", "]", "(", "h", "t", "t", "p", ":", "/", "/", "b", ")">>,
      <<"_">>,
      <<"*">>,
      <<"*", "*">>,
      <<BT>>,
      <<" ">>,
      <<"c">>,
      <<"<">>,
      <<"&">>,
      <<">">> }

InlineInputs ==
    {Concat(ss) : ss \in UNION {[1..n -> InlineSegs] : n \in 0..MaxInlineSegs}}

InitInline ==
    /\ text \in InlineInputs
    /\ formattedText = <<>>
    /\ ipc = "start"

\* lines 24-27
InlineEscape ==
    /\ ipc = "start"
    /\ formattedText' = EscapeHtml(text)
    /\ ipc' = "link"
    /\ UNCHANGED text
    /\ InlineOnly

\* lines 33-36
InlineLinks ==
    /\ ipc = "link"
    /\ formattedText' = ReplaceAll("link", formattedText, 1)
    /\ ipc' = "bold"
    /\ UNCHANGED text
    /\ InlineOnly

\* line 39
InlineBold ==
    /\ ipc = "bold"
    /\ formattedText' = ReplaceAll("bold", formattedText, 1)
    /\ ipc' = "italic_"
    /\ UNCHANGED text
    /\ InlineOnly

\* line 43
InlineItalicUnderscore ==
    /\ ipc = "italic_"
    /\ formattedText' = ReplaceAll("italic_", formattedText, 1)
    /\ ipc' = "italic*"
    /\ UNCHANGED text
    /\ InlineOnly

\* line 44
InlineItalicAsterisk ==
    /\ ipc = "italic*"
    /\ formattedText' = ReplaceAll("italic*", formattedText, 1)
    /\ ipc' = "code"
    /\ UNCHANGED text
    /\ InlineOnly

\* lines 47-52
InlineCode ==
    /\ ipc = "code"
    /\ formattedText' = ReplaceAll("code", formattedText, 1)
    /\ ipc' = "done"
    /\ UNCHANGED text
    /\ InlineOnly

NextInline ==
    \/ InlineEscape
    \/ InlineLinks
    \/ InlineBold
    \/ InlineItalicUnderscore
    \/ InlineItalicAsterisk
    \/ InlineCode


-----------------------------------------------------------------------------
(* The specifications: one component runs, the others stay as constructed. *)

IdleShell ==
    /\ theme = "light"
    /\ prompt = <<>>
    /\ generatedPost = ""
    /\ isLoading = FALSE
    /\ error = NULL
    /\ calls = 0
    /\ lastInvocation = "none"
    /\ outcome = "none"
    /\ underlying = NoCall
IdleCopy   == InitCopy
IdleInline == text = <<>> /\ formattedText = <<>> /\ ipc = "idle"
IdleRender ==
    /\ content = <<>>
    /\ blocks = <<>>
    /\ index = 0
    /\ lines = <<>>
    /\ lineIndex = 0
    /\ elements = <<>>
    /\ listItems = <<>>
    /\ nodes = <<>>
    /\ rpc = "idle"

Init == InitShell /\ IdleCopy /\ IdleInline /\ IdleRender
Spec == Init /\ [][NextShell]_vars

CopyInit == InitCopy /\ IdleShell /\ IdleInline /\ IdleRender
SpecCopy == CopyInit /\ [][NextCopy]_vars

InlineInit == InitInline /\ IdleShell /\ IdleCopy /\ IdleRender
SpecInline == InlineInit /\ [][NextInline]_vars

RenderInit == InitRender /\ IdleShell /\ IdleCopy /\ IdleInline
SpecRender == RenderInit /\ [][NextRender]_vars

-----------------------------------------------------------------------------
(* The claims about applyInlineFormatting, under SpecInline *)

JS_LINK ==
    <<"[", "a", "]", "(", "j", "a", "v", "a", "s", "c", "r", "i", "p", "t", ":", "b", ")">>

SCRIPT_OPEN ==
    <<"<", "s", "c", "r", "i", "p", "t">>

ONCLICK ==
    <<"o", "n", "c", "l", "i", "c", "k", "=">>

\* The quote that closes the href written at p is the one of the template: what
\* follows it is the target attribute.
HrefClosedByTemplate(s, p) ==
    LET q == IndexOfChar(s, "\"", p + Len(A_OPEN))
    IN  q # 0 /\ StartsWithAt(s, SubSeq(A_ATTRS, 1, 9), q)

\* The tag that starts at p, to the ">" that ends it.
TagAt(s, p) == SubSeq(s, p, IndexOfChar(s, ">", p))

\* C3: the markup holds no <script> tag and no event-handler attribute, and no
\* double quote of the input ends the value of a generated href.
C3_NoAttributeInjection ==
    /\ ~Contains(formattedText, SCRIPT_OPEN)
    /\ \A p \in Occurrences(formattedText, A_OPEN) :
         /\ HrefClosedByTemplate(formattedText, p)
         /\ ~Contains(TagAt(formattedText, p), ONCLICK)

HttpHrefAt(s, p) ==
    \/ StartsWithAt(s, A_OPEN \o HTTP \o COLON_SLASHES, p)
    \/ StartsWithAt(s, A_OPEN \o HTTP \o <<"s">> \o COLON_SLASHES, p)

\* C8: every <a> tag of the markup has an href that begins with http:// or
\* https://, a line without such a URL yields no <a> tag, and the link construct
\* with the javascript scheme comes out as its literal text.
C8_LinkSchemes ==
    /\ \A p \in Occurrences(formattedText, <<"<", "a">>) : HttpHrefAt(formattedText, p)
    /\ (~Contains(text, HTTP) => ~Contains(formattedText, <<"<", "a">>))
    /\ (ipc = "done" /\ text = JS_LINK => formattedText = JS_LINK)

\* A javascript link and an http link on one line: only the second is a tag.
C8_Witness ==
    /\ ipc = "done"
    /\ StartsWithAt(text, JS_LINK, 1)
    /\ StartsWithAt(formattedText, JS_LINK, 1)
    /\ Cardinality(Occurrences(formattedText, A_OPEN)) = 1

EmittedTags ==
    {A_OPEN, A_CLOSE, STRONG_OPEN, STRONG_CLOSE, EM_OPEN, EM_CLOSE, CODE_OPEN, CODE_CLOSE}

\* No tag starts between the "<" at p and the ">" that closes it.
TagUnbroken(s, p) ==
    LET q == IndexOfChar(s, ">", p)
    IN  q # 0 /\ \A k \in (p + 1)..(q - 1) : s[k] # "<"

\* C10: every "<" of the markup starts one of the emitted tags, no rule writes a
\* tag inside a tag written before, and every <a> tag still carries the fixed
\* target, rel and class attributes.
C10_TagsIntact ==
    /\ \A p \in Occurrences(formattedText, <<"<">>) :
         /\ \E t \in EmittedTags : StartsWithAt(formattedText, t, p)
         /\ TagUnbroken(formattedText, p)
    /\ Cardinality(Occurrences(formattedText, A_ATTRS))
         = Cardinality(Occurrences(formattedText, A_OPEN))

-----------------------------------------------------------------------------
(* The claims about renderContent, under SpecRender *)

\* The blocks the splitter cut between the fenced ones have the odd places of
\* the array, the fenced ones the even places (the places count from 1).
IsFencedPlace(k) == k % 2 = 0

\* C4: the block that holds an unterminated fence is rendered as text: no
\* <pre> element stands at the place of a block that is not a fenced one.
C4_UnterminatedFenceIsText ==
    \A k \in 1..Len(nodes) : ~IsFencedPlace(k) => nodes[k].tag = "div"

\* The fence opens with a line of three backticks and lowercase letters.
HasOpeningLine(block) ==
    LET nl == IndexOfChar(block, "\n", 1)
    IN  nl # 0 /\ \A j \in 4..(nl - 1) : IsLower(block[j])

\* The characters between the opening line and the closing fence.
FenceBody(block) == SubSeq(block, IndexOfChar(block, "\n", 1) + 1, Len(block) - 3)

\* C9: a terminated fenced block with an opening line gives a <pre> element
\* whose displayed text is the body of the fence, character for character.
C9_CodeBlockLiteral ==
    \A k \in 1..Len(nodes) :
        (IsFencedPlace(k) /\ HasOpeningLine(blocks[k])) =>
            /\ nodes[k].tag = "pre"
            /\ nodes[k].textChild = FenceBody(blocks[k])

\* A list-item line, as the claim words it.
IsListLine(line) == StartsWithAt(Trim(line), LI_PREFIX, 1)

\* The first lines of the maximal runs of list-item lines, and the last line of
\* the run that starts at line i.
RunStarts(ls) ==
    {i \in 1..Len(ls) : IsListLine(ls[i]) /\ (i = 1 \/ ~IsListLine(ls[i - 1]))}

RunEnd(ls, i) ==
    CHOOSE e \in i..Len(ls) :
        /\ \A j \in i..e : IsListLine(ls[j])
        /\ (e = Len(ls) \/ ~IsListLine(ls[e + 1]))

NthRunStart(ls, n) ==
    CHOOSE i \in RunStarts(ls) : Cardinality({j \in RunStarts(ls) : j <= i}) = n

ListPlaces(ch) == {c \in 1..Len(ch) : ch[c].tag = "ul"}

\* The n-th <ul> of the children is the n-th run: its items are the lines of the
\* run in their order, and it stands right before the element of the line that
\* ends the run, or last when the run ends the block.
ListsAreRuns(idx, ls, ch) ==
    /\ Cardinality(ListPlaces(ch)) = Cardinality(RunStarts(ls))
    /\ \A c \in ListPlaces(ch) :
         LET n == Cardinality({d \in ListPlaces(ch) : d <= c})
             i == NthRunStart(ls, n)
             e == RunEnd(ls, i)
         IN  /\ Len(ch[c].items) = e - i + 1
             /\ Len(ch[c].items) > 0
             /\ \A j \in 1..Len(ch[c].items) :
                  ch[c].items[j] = applyInlineFormatting(Substring(ls[i + j - 1], 2))
             /\ IF e = Len(ls) THEN c = Len(ch)
                ELSE /\ c < Len(ch)
                     /\ ch[c + 1].tag # "ul"
                     /\ ch[c + 1].key = <<idx, e>>

\* The block whose <div> is the last node is the one the locals still hold.
BlockJustRendered == rpc \in {"block", "done"} /\ nodes # <<>> /\ nodes[Len(nodes)].tag = "div"

\* C6: in the <div> of a block every maximal run of list-item lines is one <ul>,
\* with the lines of the run as its items in their order, placed before the
\* element of the line that ends the run; no <ul> is empty and none is left in
\* the buffer.
C6_ListRuns ==
    BlockJustRendered =>
        /\ listItems = <<>>
        /\ ListsAreRuns(nodes[Len(nodes)].key, lines, nodes[Len(nodes)].children)

\* Three list-item lines and nothing else: one <ul> of three items.
C6_Witness ==
    /\ rpc = "done"
    /\ Len(lines) = 3
    /\ \A j \in 1..3 : IsListLine(lines[j])
    /\ Len(nodes) = 1
    /\ Len(nodes[1].children) = 1
    /\ nodes[1].children[1].tag = "ul"
    /\ Len(nodes[1].children[1].items) = 3

-----------------------------------------------------------------------------
(* The claim about the copy action, under SpecCopy *)

\* C5: after two copies less than the delay apart, the indicator is shown until
\* the delay has passed since the second one.
C5_SecondCopyRestartsDelay ==
    ( /\ Len(lastCopied) = 2
      /\ lastCopied[2] < lastCopied[1]
      /\ lastCopied[1] - lastCopied[2] < COPIED_DELAY
      /\ now < lastCopied[1] + COPIED_DELAY ) => isCopied

-----------------------------------------------------------------------------
(* The claims about the Interaction Shell, under Spec *)

\* C1: at most one call of generateBlogPost is in flight.
C1_SingleFlight == calls <= 1

\* A call is in flight, and the last invocation of the handler returned at once.
C1_Witness == calls = 1 /\ lastInvocation = "returned"

\* C2: once a request has been issued, exactly one of the loading panel, the
\* error panel and the result panel is displayed.
C2_ExactlyOnePanel ==
    outcome # "none" =>
        Cardinality({p \in {"loading", "error", "result"} :
            \/ p = "loading" /\ LoadingPanel
            \/ p = "error" /\ ErrorPanel
            \/ p = "result" /\ ResultPanel}) = 1

FailureDisplayState == ~isLoading /\ generatedPost = "" /\ error # NULL

\* C7 as claimed: after a failed call the shell is in the error display state
\* and shows the message of the underlying failure when it has one, and the
\* generic text when it has none.
C7_RawMessageShown ==
    outcome = "failure" =>
        /\ FailureDisplayState
        /\ error = IF underlying.isError THEN underlying.message ELSE UNKNOWN_ERROR

\* C7 as amended: after a failed call the shell is in the error display state
\* and shows the fixed message that generateBlogPost throws, whatever the
\* underlying failure was.
C7_ServiceMessageShown ==
    outcome = "failure" => FailureDisplayState /\ error = SERVICE_ERROR

\* A failure with a message of its own has been displayed.
C7_Witness ==
    /\ outcome = "failure"
    /\ underlying.isError
    /\ underlying.message = "quota exceeded"
    /\ ErrorPanel

====
